---- MODULE Spec2Model ----
(***************************************************************************)
(* The live-quiz session engine of studysparkbackend.                      *)
(*                                                                         *)
(* liveQuizController (src/unnamed/part_005) keeps the runtime sessions in *)
(* the process-wide Map activeQuizzes and reads and writes the Quiz        *)
(* documents of src/unnamed/part_008; quizController.js holds the          *)
(* database-only handlers of the same Quiz documents.                      *)
(*                                                                         *)
(* Every method of liveQuizController is an arrow function of an object    *)
(* literal at module top level, so `this` inside them is the module's      *)
(* `this` (undefined in an ES module), never the controller: each call     *)
(* written `this.helper(...)` throws a TypeError at that point.  The model *)
(* keeps the full body of each method and marks these calls with           *)
(* thisIsController.                                                       *)
(*                                                                         *)
(* Timestamps (joinedAt, submittedAt, startedAt) are not kept as numbers:  *)
(* the only comparison the code makes on them is isExpired, modelled by    *)
(* the flag expired[q] that the passing of time sets.                      *)
(*                                                                         *)
(* Each handler is one action: every read and write a handler makes of a   *)
(* session in activeQuizzes lies between two awaits, in one synchronous    *)
(* stretch, and the read of the Quiz document that precedes it (findById,  *)
(* findOne) is taken in the same step.  The one handler that checks the    *)
(* document, waits, and only then writes the session is joinLiveQuiz; it   *)
(* is also given in two steps, joinLiveQuizBegin and joinLiveQuizResume,   *)
(* with the calls that wait at await quiz.save() held in joining.          *)
(***************************************************************************)
EXTENDS Integers, Sequences, FiniteSets, TLC

\* ---------------------------------------------------------------- bounds
MaxScore == 2            \* scores are capped so that the state space is finite
MaxDbParticipants == 2   \* length cap of a Quiz document's participants array
MaxJoining == 1          \* cap of the joinLiveQuiz calls waiting at one time

Users == {"u1", "u2"}
\* The users with the admin role, who alone pass the `admin` middleware of the
\* create route.
Admins == {"u1"}
QuizIds == {"q1"}
\* The quiz ids of a run with two quizzes side by side.
TwoQuizIds == {"q1", "q2"}
Options == {"A", "B"}

\* A question document: the two options carry their correctness flag and the
\* explanation names the correct answer.
Question(c, p) ==
  [ questionText  |-> "text",
    options       |-> << [text |-> "A", isCorrect |-> c = "A"],
                         [text |-> "B", isCorrect |-> c = "B"] >>,
    correctAnswer |-> c,
    explanation   |-> c,
    difficulty    |-> "medium",
    points        |-> p ]

\* The quiz definitions a creator may submit (req.body.questions).
Definitions ==
  { << >>,
    << Question("B", 1), Question("A", 2) >>,
    << Question("A", 0) >> }

\* The question indices a client may send (req.body.questionIndex).
QuestionIndices == {0, 1}

Null == "null"

VARIABLES
  quizzes,        \* the Quiz collection (part_008): QuizIds -> document or NoQuiz
  activeQuizzes,  \* the Map activeQuizzes (part_005:10), a function on the ids
                  \* that have a session
  expired,        \* expired[q]: now > quiz.startedAt + quiz.duration minutes
  lastEvent,      \* the last event published on a channel quiz-<id>
  timers,         \* pending setTimeout callbacks (part_005:322, 443)
  joining,        \* the joinLiveQuiz calls waiting at await quiz.save() (part_005:145)
  res             \* the response (or outcome) of the last operation

vars == << quizzes, activeQuizzes, expired, lastEvent, timers, joining, res >>

\* ------------------------------------------------------------ data shapes

\* A Quiz document as createQuiz / Quiz.create store it.
NewQuiz(creator, questions, status, code) ==
  [ exists       |-> TRUE,
    createdBy    |-> creator,
    questions    |-> questions,
    status       |-> status,
    isLive       |-> FALSE,
    code         |-> code,        \* TRUE once a join code is set
    startedAt    |-> FALSE,       \* TRUE once startedAt is set
    endedAt      |-> FALSE,       \* TRUE once endedAt is set
    participants |-> << >> ]

\* No document of that id in the collection (findById returns null).
NoQuiz == [NewQuiz("", << >>, "", FALSE) EXCEPT !.exists = FALSE]

\* The participants Map of a session: keys in insertion order, and the values.
NoParticipants == [order |-> << >>, data |-> << >>]

\* The object startLiveQuiz stores in activeQuizzes.
NewSession ==
  [ currentQuestionIndex |-> 0,
    participants         |-> NoParticipants,
    questionStartTime    |-> Null,
    isActive             |-> TRUE,
    leaderboard          |-> << >> ]

\* The object joinLiveQuiz stores for a participant.
NewParticipant == [score |-> 0, answers |-> << >>, lastAnswerTime |-> Null]

NoEvent ==
  [name |-> "none", quiz |-> "", user |-> "", totalParticipants |-> 0,
   questionIndex |-> -1, leaderboard |-> << >>]

Response(op, quizId, status, body) ==
  [op |-> op, quiz |-> quizId, status |-> status, body |-> body]

\* What Map.prototype.get returns for a key the Map does not hold.
Undefined == [undefined |-> TRUE]

isUndefined(v) == "undefined" \in DOMAIN v

\* A set that forgets the Map's other keys.
MapSetOnly(m, k, v) == [x \in {k} |-> v]

\* Map.prototype.set
MapSet(m, k, v) == [x \in (DOMAIN m) \cup {k} |-> IF x = k THEN v ELSE m[x]]

\* A set that takes an existing key out and puts it back at the end
\* (delete followed by set).
ParticipantsSetMoveToEnd(ps, user, v) ==
  [ order |-> Append(SelectSeq(ps.order, LAMBDA x : x # user), user),
    data  |-> MapSet(ps.data, user, v) ]

\* Map.prototype.set on the participants Map: an existing key keeps its place.
ParticipantsSet(ps, user, v) ==
  [ order |-> IF user \in DOMAIN ps.data THEN ps.order ELSE Append(ps.order, user),
    data  |-> MapSet(ps.data, user, v) ]

\* The methods written as ordinary methods, whose `this` is the controller.
thisIsControllerBound == TRUE

\* `this` inside the controller's arrow functions is not the controller.
thisIsController == FALSE

\* ------------------------------------------------------------ pure helpers

\* question.correctAnswer === answer
isCorrectAnswer(question, answer) == question.correctAnswer = answer

\* question.points || 1
pointsOf(question) == IF question.points = 0 THEN 1 ELSE question.points

\* A comparator that orders by score ascending.
compareScoreAscending(a, b) == a.score - b.score

\* A comparator that places the later of two equal scores first.
compareScoreTiesReversed(a, b) == IF a.score = b.score THEN 1 ELSE b.score - a.score

\* The comparator (a, b) => b.score - a.score
compareScore(a, b) == b.score - a.score

\* Array.prototype.sort(compareScore): a stable sort, so an entry is inserted
\* after the entries the comparator does not place behind it.
RECURSIVE insertByScore(_, _)
insertByScore(sorted, e) ==
  IF sorted = << >> THEN << e >>
  ELSE IF compareScore(Head(sorted), e) <= 0
       THEN << Head(sorted) >> \o insertByScore(Tail(sorted), e)
       ELSE << e >> \o sorted

RECURSIVE sortByScore(_)
sortByScore(entries) ==
  IF entries = << >> THEN << >>
  ELSE insertByScore(sortByScore(SubSeq(entries, 1, Len(entries) - 1)),
                     entries[Len(entries)])

\* A leaderboard whose entries also carry the participant's answers Map.
calculateLeaderboardWithSelections(quizId) ==
  IF quizId \notin DOMAIN activeQuizzes THEN << >>
  ELSE LET ps == activeQuizzes[quizId].participants
       IN sortByScore([i \in 1..Len(ps.order) |->
            [ userId     |-> ps.order[i],
              score      |-> ps.data[ps.order[i]].score,
              answers    |-> Cardinality(DOMAIN ps.data[ps.order[i]].answers),
              selections |-> ps.data[ps.order[i]].answers ]])

\* calculateLeaderboard(quizId): one entry per participant in the Map's
\* insertion order (every participant is a stored User), then sorted.
calculateLeaderboard(quizId) ==
  IF quizId \notin DOMAIN activeQuizzes THEN << >>
  ELSE LET ps == activeQuizzes[quizId].participants
       IN sortByScore([i \in 1..Len(ps.order) |->
            [ userId  |-> ps.order[i],
              score   |-> ps.data[ps.order[i]].score,
              answers |-> Cardinality(DOMAIN ps.data[ps.order[i]].answers) ]])

\* Quiz.findOne({ code, isLive: true, status: 'active' }) finds the quiz of that code
findLiveByCode(quizId) ==
  /\ quizzes[quizId].exists
  /\ quizzes[quizId].code
  /\ quizzes[quizId].isLive
  /\ quizzes[quizId].status = "active"

\* quiz.isExpired()
isExpired(quizId) ==
  IF ~quizzes[quizId].startedAt THEN FALSE ELSE expired[quizId]

\* A view of the question that forwards the option documents as they are.
getCurrentQuestionForUserWholeOptions(quiz, questionIndex) ==
  IF questionIndex >= Len(quiz.questions) THEN Null
  ELSE LET question == quiz.questions[questionIndex + 1] IN
       [ questionIndex |-> questionIndex,
         questionText  |-> question.questionText,
         options       |-> question.options,
         points        |-> question.points,
         difficulty    |-> question.difficulty ]

\* getCurrentQuestionForUser(quiz, questionIndex)
getCurrentQuestionForUser(quiz, questionIndex) ==
  IF questionIndex >= Len(quiz.questions) THEN Null
  ELSE LET question == quiz.questions[questionIndex + 1] IN
       [ questionIndex |-> questionIndex,
         questionText  |-> question.questionText,
         options       |-> [k \in 1..Len(question.options) |->
                              [text |-> question.options[k].text]],
         points        |-> question.points,
         difficulty    |-> question.difficulty ]

\* ------------------------------------------------------------------- Init

Init ==
  /\ quizzes = [q \in TwoQuizIds |-> NoQuiz]
  /\ activeQuizzes = << >>
  /\ expired = [q \in TwoQuizIds |-> FALSE]
  /\ lastEvent = NoEvent
  /\ timers = {}
  /\ joining = {}
  /\ res = Response("none", "", 0, "")

\* ------------------------------------------------- liveQuizController

\* A creator check that lets every authenticated user through.
isCreatorAnyUser(quiz, user) == user \in Users

\* quiz.createdBy.toString() === req.user._id.toString()
isCreator(quiz, user) == quiz.createdBy = user

\* 1. createQuiz: stores the document as sent, status 'draft'; no check of
\* the question list.
createQuiz(quizId, user, questions) ==
  /\ ~quizzes[quizId].exists
  /\ quizzes' = [quizzes EXCEPT ![quizId] = NewQuiz(user, questions, "draft", FALSE)]
  /\ res' = Response("createQuiz", quizId, 201, "")
  /\ UNCHANGED << activeQuizzes, expired, lastEvent, timers, joining >>

\* 2. startLiveQuiz
startLiveQuiz(quizId, user) ==
  LET quiz == quizzes[quizId] IN
  IF ~quiz.exists
  THEN /\ res' = Response("startLiveQuiz", quizId, 404, "Quiz not found")
       /\ UNCHANGED << quizzes, activeQuizzes, expired, lastEvent, timers, joining >>
  ELSE IF ~isCreator(quiz, user)
  THEN /\ res' = Response("startLiveQuiz", quizId, 403,
                          "Not authorized to start this quiz")
       /\ UNCHANGED << quizzes, activeQuizzes, expired, lastEvent, timers, joining >>
  ELSE /\ quizzes' = [quizzes EXCEPT ![quizId] =
                        [quiz EXCEPT !.code = TRUE, !.isLive = TRUE,
                                     !.status = "active", !.startedAt = TRUE]]
       /\ expired' = [expired EXCEPT ![quizId] = FALSE]
       /\ activeQuizzes' = MapSet(activeQuizzes, quizId, NewSession)
       /\ res' = Response("startLiveQuiz", quizId, 200, "")
       /\ UNCHANGED << lastEvent, timers, joining >>

\* 3. joinLiveQuiz, when no other handler runs while it waits at its awaits;
\* publishOk is whether channel.publish succeeds.
joinLiveQuiz(quizId, user, publishOk) ==
  LET quiz == quizzes[quizId] IN
  IF ~findLiveByCode(quizId)
  THEN /\ res' = Response("joinLiveQuiz", quizId, 404,
                          "Invalid quiz code or quiz not active")
       /\ UNCHANGED << quizzes, activeQuizzes, expired, lastEvent, timers, joining >>
  ELSE IF quiz.endedAt \/ isExpired(quizId)
  THEN /\ res' = Response("joinLiveQuiz", quizId, 400, "Quiz has ended")
       /\ UNCHANGED << quizzes, activeQuizzes, expired, lastEvent, timers, joining >>
  ELSE /\ Len(quiz.participants) < MaxDbParticipants
       /\ quizzes' = [quizzes EXCEPT ![quizId].participants = Append(@, user)]
       /\ activeQuizzes' =
            IF quizId \in DOMAIN activeQuizzes
            THEN [activeQuizzes EXCEPT ![quizId].participants =
                    ParticipantsSet(@, user, NewParticipant)]
            ELSE activeQuizzes
       /\ IF publishOk
          THEN lastEvent' = [NoEvent EXCEPT !.name = "participant-joined",
                               !.quiz = quizId, !.user = user,
                               !.totalParticipants = Len(quiz.participants) + 1]
          ELSE UNCHANGED lastEvent
       /\ res' = IF ~publishOk
                 THEN Response("joinLiveQuiz", quizId, 400, "publish failed")
                 ELSE IF quizId \in DOMAIN activeQuizzes /\ ~thisIsController
                 THEN Response("joinLiveQuiz", quizId, 400, "TypeError")
                 ELSE Response("joinLiveQuiz", quizId, 200, "")
       /\ UNCHANGED << expired, timers, joining >>

\* joinLiveQuiz up to await quiz.save() (part_005:145), for a call that passes
\* both checks: the participant is pushed and the save is under way. The
\* handler yields here; other handlers may run before it resumes.
joinLiveQuizBegin(quizId, user) ==
  LET quiz == quizzes[quizId] IN
  /\ findLiveByCode(quizId)
  /\ ~(quiz.endedAt \/ isExpired(quizId))
  /\ Len(quiz.participants) < MaxDbParticipants
  /\ Cardinality(joining) < MaxJoining
  /\ quizzes' = [quizzes EXCEPT ![quizId].participants = Append(@, user)]
  /\ joining' = joining \cup
       {[quiz |-> quizId, user |-> user,
         totalParticipants |-> Len(quiz.participants) + 1]}
  /\ UNCHANGED << activeQuizzes, expired, lastEvent, timers, res >>

\* joinLiveQuiz from the return of await quiz.save() to the response
\* (part_005:147-174): the session is looked up now, not re-checked.
joinLiveQuizResume(quizId, user, publishOk) ==
  \E call \in joining :
    /\ call.quiz = quizId /\ call.user = user
    /\ joining' = joining \ {call}
    /\ activeQuizzes' =
         IF quizId \in DOMAIN activeQuizzes
         THEN [activeQuizzes EXCEPT ![quizId].participants =
                 ParticipantsSet(@, user, NewParticipant)]
         ELSE activeQuizzes
    /\ IF publishOk
       THEN lastEvent' = [NoEvent EXCEPT !.name = "participant-joined",
                            !.quiz = quizId, !.user = user,
                            !.totalParticipants = call.totalParticipants]
       ELSE UNCHANGED lastEvent
    /\ res' = IF ~publishOk
              THEN Response("joinLiveQuiz", quizId, 400, "publish failed")
              ELSE IF quizId \in DOMAIN activeQuizzes /\ ~thisIsController
              THEN Response("joinLiveQuiz", quizId, 400, "TypeError")
              ELSE Response("joinLiveQuiz", quizId, 200, "")
    /\ UNCHANGED << quizzes, expired, timers >>

\* A lookup that hands out a fresh record for an id the Map does not hold.
getParticipantOrCreate(quizId, user) ==
  IF user \in DOMAIN activeQuizzes[quizId].participants.data
  THEN activeQuizzes[quizId].participants.data[user]
  ELSE NewParticipant

\* activeQuiz.participants.get(userId): the record, or undefined
getParticipant(quizId, user) ==
  IF user \in DOMAIN activeQuizzes[quizId].participants.data
  THEN activeQuizzes[quizId].participants.data[user]
  ELSE Undefined

\* An index check that refuses only the questions already passed.
notCurrentQuestionPastOnly(quizId, questionIndex) ==
  questionIndex < activeQuizzes[quizId].currentQuestionIndex

\* questionIndex !== activeQuiz.currentQuestionIndex
notCurrentQuestion(quizId, questionIndex) ==
  questionIndex # activeQuizzes[quizId].currentQuestionIndex

\* An update that stores the answer and leaves the score alone.
recordAnswerNoScore(participantData, questionIndex, answer, question) ==
  [participantData EXCEPT
     !.answers = MapSet(@, questionIndex,
                        [answer |-> answer,
                         isCorrect |-> isCorrectAnswer(question, answer)])]

\* The participant's record after the answer is stored and the score updated.
recordAnswer(participantData, questionIndex, answer, question) ==
  LET isCorrect == isCorrectAnswer(question, answer) IN
  [participantData EXCEPT
     !.answers = MapSet(@, questionIndex, [answer |-> answer, isCorrect |-> isCorrect]),
     !.score = IF isCorrect THEN @ + pointsOf(question) ELSE @]

\* 5. submitAnswer
submitAnswer(quizId, user, questionIndex, answer) ==
  LET quiz == quizzes[quizId] IN
  IF ~quiz.exists
  THEN /\ res' = Response("submitAnswer", quizId, 404, "Quiz not found")
       /\ UNCHANGED << quizzes, activeQuizzes, expired, lastEvent, timers, joining >>
  ELSE IF quizId \notin DOMAIN activeQuizzes
  THEN /\ res' = Response("submitAnswer", quizId, 400, "Quiz not active")
       /\ UNCHANGED << quizzes, activeQuizzes, expired, lastEvent, timers, joining >>
  ELSE IF isUndefined(getParticipant(quizId, user))
  THEN /\ res' = Response("submitAnswer", quizId, 403,
                          "Not a participant in this quiz")
       /\ UNCHANGED << quizzes, activeQuizzes, expired, lastEvent, timers, joining >>
  ELSE IF notCurrentQuestion(quizId, questionIndex)
  THEN /\ res' = Response("submitAnswer", quizId, 400,
                          "Cannot answer previous or future questions")
       /\ UNCHANGED << quizzes, activeQuizzes, expired, lastEvent, timers, joining >>
  ELSE IF questionIndex >= Len(quiz.questions)
  THEN \* quiz.questions[questionIndex] is undefined: reading correctAnswer throws
       /\ res' = Response("submitAnswer", quizId, 400, "TypeError")
       /\ UNCHANGED << quizzes, activeQuizzes, expired, lastEvent, timers, joining >>
  ELSE LET question == quiz.questions[questionIndex + 1]
           isCorrect == isCorrectAnswer(question, answer)
           participantData ==
             recordAnswer(getParticipant(quizId, user), questionIndex, answer, question)
       IN /\ participantData.score <= MaxScore
          /\ activeQuizzes' =
               [activeQuizzes EXCEPT ![quizId].participants.data =
                  MapSet(@, user, participantData)]
          /\ res' = Response("submitAnswer", quizId, 200,
                             IF isCorrect THEN "isCorrect" ELSE "notCorrect")
          /\ UNCHANGED << quizzes, expired, lastEvent, timers, joining >>

\* The event broadcastLeaderboard publishes.  lastEvent keeps one event: the
\* event published right after a leaderboard-update carries that leaderboard
\* in its leaderboard field.
leaderboardUpdate(quizId) ==
  [NoEvent EXCEPT !.name = "leaderboard-update", !.quiz = quizId,
                  !.leaderboard = calculateLeaderboard(quizId)]

\* endQuiz(quizId), the function (the later of the two endQuiz keys of the
\* object literal, which is the one the object keeps); op names the caller and
\* publishOk is whether channel.publish succeeds.
endQuizBody(quizId, op, publishOk) ==
  /\ quizzes' =
       IF quizzes[quizId].exists
       THEN [quizzes EXCEPT ![quizId].endedAt = TRUE, ![quizId].status = "completed",
                            ![quizId].isLive = FALSE]
       ELSE quizzes
  /\ IF quizId \in DOMAIN activeQuizzes
     THEN /\ activeQuizzes' = [activeQuizzes EXCEPT ![quizId].isActive = FALSE]
          /\ IF ~thisIsController
             THEN \* this.broadcastLeaderboard throws: the call rejects here
                  /\ res' = Response(op, quizId, 0, "TypeError")
                  /\ UNCHANGED << lastEvent, timers >>
             ELSE IF publishOk
             THEN \* broadcastLeaderboard, then quiz-ended, then the cleanup timer
                  /\ lastEvent' = [leaderboardUpdate(quizId) EXCEPT !.name = "quiz-ended"]
                  /\ timers' = timers \cup {[kind |-> "cleanup", quiz |-> quizId]}
                  /\ res' = Response(op, quizId, 0, "resolved")
             ELSE \* broadcastLeaderboard logs its failed publish (392-394); the
                  \* publish of quiz-ended rejects before the setTimeout
                  /\ res' = Response(op, quizId, 0, "publish failed")
                  /\ UNCHANGED << lastEvent, timers >>
     ELSE /\ res' = Response(op, quizId, 0, "resolved")
          /\ UNCHANGED << activeQuizzes, lastEvent, timers >>
  /\ UNCHANGED << expired, joining >>

endQuiz(quizId) == \E publishOk \in BOOLEAN : endQuizBody(quizId, "endQuiz", publishOk)

\* 6. nextQuestion(quizId); publishOk is whether channel.publish succeeds.
nextQuestionBody(quizId, publishOk) ==
  IF ~quizzes[quizId].exists \/ quizId \notin DOMAIN activeQuizzes
  THEN /\ res' = Response("nextQuestion", quizId, 0, "returned")
       /\ UNCHANGED << quizzes, activeQuizzes, expired, lastEvent, timers, joining >>
  ELSE IF ~thisIsController
  THEN \* this.broadcastLeaderboard throws; the catch logs the error
       /\ res' = Response("nextQuestion", quizId, 0, "TypeError")
       /\ UNCHANGED << quizzes, activeQuizzes, expired, lastEvent, timers, joining >>
  ELSE LET currentIndex == activeQuizzes[quizId].currentQuestionIndex IN
       IF currentIndex >= Len(quizzes[quizId].questions) - 1
       THEN endQuizBody(quizId, "nextQuestion", publishOk)
       ELSE /\ activeQuizzes' =
                 [activeQuizzes EXCEPT ![quizId].currentQuestionIndex = @ + 1,
                                       ![quizId].questionStartTime = "set"]
            /\ IF publishOk
               THEN /\ lastEvent' = [leaderboardUpdate(quizId) EXCEPT
                                       !.name = "next-question",
                                       !.questionIndex = currentIndex + 1]
                    /\ timers' = timers \cup {[kind |-> "nextQuestion", quiz |-> quizId]}
                    /\ res' = Response("nextQuestion", quizId, 0, "returned")
               ELSE \* the publish of next-question rejects before the
                    \* setTimeout; the catch logs the error
                    /\ res' = Response("nextQuestion", quizId, 0, "publish failed")
                    /\ UNCHANGED << lastEvent, timers >>
            /\ UNCHANGED << quizzes, expired, joining >>

nextQuestion(quizId) == \E publishOk \in BOOLEAN : nextQuestionBody(quizId, publishOk)

\* 8. getLeaderboard
getLeaderboard(quizId, user) ==
  /\ res' = IF thisIsController
            THEN Response("getLeaderboard", quizId, 200, "")
            ELSE Response("getLeaderboard", quizId, 400, "TypeError")
  /\ UNCHANGED << quizzes, activeQuizzes, expired, lastEvent, timers, joining >>

\* ------------------------------------------------------ quizController.js

\* createLiveQuiz: refuses an empty question list; the quiz gets its code and
\* status 'active' at once.
createLiveQuiz(quizId, user, questions) ==
  IF Len(questions) = 0
  THEN /\ res' = Response("createLiveQuiz", quizId, 400,
                          "Title, topic, and questions are required")
       /\ UNCHANGED << quizzes, activeQuizzes, expired, lastEvent, timers, joining >>
  ELSE /\ ~quizzes[quizId].exists
       /\ quizzes' = [quizzes EXCEPT ![quizId] = NewQuiz(user, questions, "active", TRUE)]
       /\ res' = Response("createLiveQuiz", quizId, 201, "")
       /\ UNCHANGED << activeQuizzes, expired, lastEvent, timers, joining >>

\* joinQuiz: Quiz.findOne({ code, status: 'active' })
joinQuiz(quizId, user) ==
  LET quiz == quizzes[quizId] IN
  IF ~(quiz.exists /\ quiz.code /\ quiz.status = "active")
  THEN /\ res' = Response("joinQuiz", quizId, 404,
                          "Invalid quiz code or quiz is not active")
       /\ UNCHANGED << quizzes, activeQuizzes, expired, lastEvent, timers, joining >>
  ELSE IF \E i \in 1..Len(quiz.participants) : quiz.participants[i] = user
  THEN /\ res' = Response("joinQuiz", quizId, 200, "Already joined this quiz")
       /\ UNCHANGED << quizzes, activeQuizzes, expired, lastEvent, timers, joining >>
  ELSE /\ Len(quiz.participants) < MaxDbParticipants
       /\ quizzes' = [quizzes EXCEPT ![quizId].participants = Append(@, user)]
       /\ res' = Response("joinQuiz", quizId, 200, "Successfully joined quiz")
       /\ UNCHANGED << activeQuizzes, expired, lastEvent, timers, joining >>

\* startQuiz
startQuiz(quizId, user) ==
  LET quiz == quizzes[quizId] IN
  IF ~quiz.exists
  THEN /\ res' = Response("startQuiz", quizId, 404, "Quiz not found")
       /\ UNCHANGED << quizzes, activeQuizzes, expired, lastEvent, timers, joining >>
  ELSE IF ~isCreator(quiz, user)
  THEN /\ res' = Response("startQuiz", quizId, 403,
                          "You are not authorized to start this quiz")
       /\ UNCHANGED << quizzes, activeQuizzes, expired, lastEvent, timers, joining >>
  ELSE IF quiz.isLive
  THEN /\ res' = Response("startQuiz", quizId, 400, "Quiz is already started")
       /\ UNCHANGED << quizzes, activeQuizzes, expired, lastEvent, timers, joining >>
  ELSE /\ quizzes' = [quizzes EXCEPT ![quizId].isLive = TRUE,
                                     ![quizId].startedAt = TRUE,
                                     ![quizId].status = "active"]
       /\ expired' = [expired EXCEPT ![quizId] = FALSE]
       /\ res' = Response("startQuiz", quizId, 200, "")
       /\ UNCHANGED << activeQuizzes, lastEvent, timers, joining >>

\* endQuiz of quizController.js (the route handler)
quizController_endQuiz(quizId, user) ==
  LET quiz == quizzes[quizId] IN
  IF ~quiz.exists
  THEN /\ res' = Response("quizController.endQuiz", quizId, 404, "Quiz not found")
       /\ UNCHANGED << quizzes, activeQuizzes, expired, lastEvent, timers, joining >>
  ELSE IF ~isCreator(quiz, user)
  THEN /\ res' = Response("quizController.endQuiz", quizId, 403,
                          "You are not authorized to end this quiz")
       /\ UNCHANGED << quizzes, activeQuizzes, expired, lastEvent, timers, joining >>
  ELSE /\ quizzes' = [quizzes EXCEPT ![quizId].isLive = FALSE,
                                     ![quizId].endedAt = TRUE,
                                     ![quizId].status = "completed"]
       /\ res' = Response("quizController.endQuiz", quizId, 200, "")
       /\ UNCHANGED << activeQuizzes, expired, lastEvent, timers, joining >>

\* ------------------------------------------------------------------- time

\* More than quiz.duration minutes pass after quiz.startedAt.
timePasses(quizId) ==
  /\ quizzes[quizId].exists
  /\ quizzes[quizId].startedAt
  /\ ~expired[quizId]
  /\ expired' = [expired EXCEPT ![quizId] = TRUE]
  /\ UNCHANGED << quizzes, activeQuizzes, lastEvent, timers, joining, res >>

\* ------------------------------------------------------------------- Next

Next ==
  \/ \E q \in QuizIds, u \in Admins, d \in Definitions : createQuiz(q, u, d)
  \/ \E q \in QuizIds, u \in Users : startLiveQuiz(q, u)
  \/ \E q \in QuizIds, u \in Users, ok \in BOOLEAN : joinLiveQuiz(q, u, ok)
  \/ \E q \in QuizIds, u \in Users : joinLiveQuizBegin(q, u)
  \/ \E q \in QuizIds, u \in Users, ok \in BOOLEAN : joinLiveQuizResume(q, u, ok)
  \/ \E q \in QuizIds, u \in Users, i \in QuestionIndices, a \in Options :
       submitAnswer(q, u, i, a)
  \/ \E q \in QuizIds : nextQuestion(q)
  \/ \E q \in QuizIds : endQuiz(q)
  \/ \E q \in QuizIds, u \in Users : getLeaderboard(q, u)
  \/ \E q \in QuizIds, u \in Admins, d \in Definitions : createLiveQuiz(q, u, d)
  \/ \E q \in QuizIds, u \in Users : joinQuiz(q, u)
  \/ \E q \in QuizIds, u \in Users : startQuiz(q, u)
  \/ \E q \in QuizIds, u \in Users : quizController_endQuiz(q, u)
  \/ \E q \in QuizIds : timePasses(q)

Spec == Init /\ [][Next]_vars

\* The operations of a run in which nobody ends the quiz early and the quiz
\* is started once: Next without the two endQuiz operations and without a
\* start of a quiz that is already live.
NextSingleRun ==
  \/ \E q \in QuizIds, u \in Admins, d \in Definitions : createQuiz(q, u, d)
  \/ \E q \in QuizIds, u \in Users : ~quizzes[q].isLive /\ startLiveQuiz(q, u)
  \/ \E q \in QuizIds, u \in Users, ok \in BOOLEAN : joinLiveQuiz(q, u, ok)
  \/ \E q \in QuizIds, u \in Users : joinLiveQuizBegin(q, u)
  \/ \E q \in QuizIds, u \in Users, ok \in BOOLEAN : joinLiveQuizResume(q, u, ok)
  \/ \E q \in QuizIds, u \in Users, i \in QuestionIndices, a \in Options :
       submitAnswer(q, u, i, a)
  \/ \E q \in QuizIds : nextQuestion(q)
  \/ \E q \in QuizIds, u \in Users : getLeaderboard(q, u)
  \/ \E q \in QuizIds, u \in Admins, d \in Definitions : createLiveQuiz(q, u, d)
  \/ \E q \in QuizIds, u \in Users : joinQuiz(q, u)
  \/ \E q \in QuizIds, u \in Users : startQuiz(q, u)
  \/ \E q \in QuizIds : timePasses(q)

\* A round timer that fires calls nextQuestion; under FairSpec such a call is
\* never postponed forever.
FairSpec ==
  Init /\ [][NextSingleRun]_vars /\ WF_vars(\E q \in QuizIds : nextQuestion(q))

\* The operations of the session engine on two quizzes side by side, both
\* created by u1 from the two-question definition; joins whose publish succeeds
\* and correct answers to question 0.
NextTwoQuizzes ==
  \/ \E q \in TwoQuizIds :
       createQuiz(q, "u1", << Question("B", 1), Question("A", 2) >>)
  \/ \E q \in TwoQuizIds : startLiveQuiz(q, "u1")
  \/ \E q \in TwoQuizIds, u \in Users : joinLiveQuiz(q, u, TRUE)
  \/ \E q \in TwoQuizIds, u \in Users : submitAnswer(q, u, 0, "B")
  \/ \E q \in TwoQuizIds : nextQuestion(q)
  \/ \E q \in TwoQuizIds : endQuiz(q)

TwoQuizzesSpec == Init /\ [][NextTwoQuizzes]_vars

\* ------------------------------------------------------ views of a session

hasSession(q) == q \in DOMAIN activeQuizzes

\* currentQuestionIndex, -1 while the quiz has no session
currentIndex(q) == IF hasSession(q) THEN activeQuizzes[q].currentQuestionIndex ELSE -1

isActiveSession(q) == hasSession(q) /\ activeQuizzes[q].isActive

\* endQuiz has finalized the session
isEnded(q) == hasSession(q) /\ ~activeQuizzes[q].isActive

isParticipant(q, u) == hasSession(q) /\ u \in DOMAIN activeQuizzes[q].participants.data

participantOf(q, u) == activeQuizzes[q].participants.data[u]

hasAnswered(q, u, i) == isParticipant(q, u) /\ i \in DOMAIN participantOf(q, u).answers

numQuestions(q) == Len(quizzes[q].questions)

\* joinLiveQuiz does not refuse the quiz
joinable(q) == findLiveByCode(q) /\ ~quizzes[q].endedAt /\ ~isExpired(q)

\* every joined participant has an answer for the current question
allAnswered(q) ==
  /\ hasSession(q)
  /\ DOMAIN activeQuizzes[q].participants.data # {}
  /\ \A u \in DOMAIN activeQuizzes[q].participants.data :
       currentIndex(q) \in DOMAIN participantOf(q, u).answers

\* ----------------------------------------------------------------- claims

\* C1: once a submission by participant u for question i has been accepted,
\* a later submitAnswer by u for i, while i is the open question, is rejected
\* and leaves u's recorded answer and score as the first submission left them.
C1_DuplicateRejected ==
  [][\A q \in QuizIds, u \in Users, i \in QuestionIndices, a \in Options :
       (hasAnswered(q, u, i) /\ i = currentIndex(q) /\ submitAnswer(q, u, i, a))
         => /\ res'.status # 200
            /\ activeQuizzes' = activeQuizzes]_vars

\* C2: the current question index of every session lies in
\* [-1, len(questions)], and a session whose index is >= len(questions) is
\* Ended.
C2_IndexInBounds ==
  \A q \in QuizIds :
    /\ currentIndex(q) >= -1
    /\ currentIndex(q) <= numQuestions(q)
    /\ (hasSession(q) /\ currentIndex(q) >= numQuestions(q)) => isEnded(q)

C4_EndedIsTerminal ==
  [][\A q \in QuizIds : isEnded(q) => isEnded(q)']_vars

\* C5: after a session is Ended no submitAnswer is accepted, so no score and
\* no recorded answer of the session changes.
C5_NoAnswerAfterEnded ==
  [][\A q \in QuizIds, u \in Users, i \in QuestionIndices, a \in Options :
       (isEnded(q) /\ submitAnswer(q, u, i, a))
         => /\ res'.status # 200
            /\ activeQuizzes' = activeQuizzes]_vars

\* C6: only an accepted submitAnswer changes a participant's score: every
\* other step leaves each existing participant's score and answers unchanged.
C6_OnlySubmitChangesScore ==
  [][\A q \in QuizIds, u \in Users :
       (isParticipant(q, u)
          /\ ~(\E i \in QuestionIndices, a \in Options : submitAnswer(q, u, i, a)))
         => /\ isParticipant(q, u)'
            /\ participantOf(q, u)'.score = participantOf(q, u).score
            /\ participantOf(q, u)'.answers = participantOf(q, u).answers]_vars

\* C7: a joinLiveQuiz by a participant who is already joined, on a joinable
\* session, succeeds and changes nothing of the participant (score, answers,
\* position), adds no record, and the participant count it broadcasts is the
\* number of distinct joined participants.
C7_JoinIdempotent ==
  [][\A q \in QuizIds, u \in Users :
       (isParticipant(q, u) /\ isActiveSession(q) /\ joinable(q)
          /\ joinLiveQuiz(q, u, TRUE))
         => /\ res'.status = 200
            /\ activeQuizzes'[q].participants = activeQuizzes[q].participants
            /\ lastEvent'.totalParticipants =
                 Cardinality(DOMAIN activeQuizzes'[q].participants.data)]_vars

\* C8: right after a successful startLiveQuiz the session is Active with
\* question 0 open: index 0, the question start time recorded, a round timer
\* pending and the question published.
C8_StartOpensQuestion0 ==
  \A q \in QuizIds :
    res = Response("startLiveQuiz", q, 200, "")
      => /\ isActiveSession(q)
         /\ currentIndex(q) = 0
         /\ activeQuizzes[q].questionStartTime # Null
         /\ [kind |-> "nextQuestion", quiz |-> q] \in timers
         /\ lastEvent.name = "next-question" /\ lastEvent.quiz = q
         /\ lastEvent.questionIndex = 0

\* C9: with round timers firing fairly and nobody ending the session early,
\* every started session eventually reaches Ended.
C9_StartedEventuallyEnded ==
  \A q \in QuizIds : isActiveSession(q) ~> isEnded(q)

\* C10: the submission that gives every joined participant an answer for the
\* open question closes that question at once (the index advances or the
\* session ends), without a timer.
C10_AllAnsweredAdvances ==
  [][\A q \in QuizIds, u \in Users, i \in QuestionIndices, a \in Options :
       (isActiveSession(q) /\ submitAnswer(q, u, i, a) /\ res'.status = 200
          /\ allAnswered(q)')
         => (currentIndex(q)' > currentIndex(q) \/ isEnded(q)')]_vars

\* C11: submissions by distinct joined participants on the same open question
\* are each accepted, and the resulting scores do not depend on the order in
\* which they are handled. Each such submission is answered 200, stores the
\* selection and adds the grade of that selection to the submitter's own
\* score, and leaves every other participant's record, the join order and the
\* question index as they were; so the handlers of distinct participants
\* commute and every order yields the scores of grading them one by one.
C11_ConcurrentSubmitsIndependent ==
  [][\A q \in QuizIds, u \in Users, i \in QuestionIndices, a \in Options :
       ( /\ isParticipant(q, u)
         /\ i = currentIndex(q)
         /\ i < numQuestions(q)
         /\ ~hasAnswered(q, u, i)
         /\ submitAnswer(q, u, i, a) )
       => /\ res'.status = 200
          /\ hasAnswered(q, u, i)'
          /\ participantOf(q, u)'.answers[i].answer = a
          /\ participantOf(q, u)'.score =
               participantOf(q, u).score
                 + (IF isCorrectAnswer(quizzes[q].questions[i + 1], a)
                    THEN pointsOf(quizzes[q].questions[i + 1]) ELSE 0)
          /\ \A v \in Users \ {u} :
               isParticipant(q, v) =>
                 isParticipant(q, v)' /\ participantOf(q, v)' = participantOf(q, v)
          /\ activeQuizzes'[q].participants.order = activeQuizzes[q].participants.order
          /\ currentIndex(q)' = currentIndex(q)
    ]_vars

\* Two participants have both had their answer to question 0 accepted, one
\* scoring and one not.
C11_Witness ==
  \E q \in QuizIds : \E u \in Users, v \in Users :
    /\ u # v
    /\ hasAnswered(q, u, 0) /\ hasAnswered(q, v, 0)
    /\ participantOf(q, u).score > 0 /\ participantOf(q, v).score = 0
    /\ res.op = "submitAnswer" /\ res.status = 200

\* C12: a submission by a joined participant whose questionIndex is not the
\* session's current index is rejected ("Cannot answer previous or future
\* questions") and changes no score and no recorded answer.
C12_WrongIndexRejected ==
  [][\A q \in QuizIds, u \in Users, i \in QuestionIndices, a \in Options :
       ( /\ isParticipant(q, u)
         /\ i # currentIndex(q)
         /\ submitAnswer(q, u, i, a) )
       => /\ res'.status = 400
          /\ res'.body = "Cannot answer previous or future questions"
          /\ activeQuizzes' = activeQuizzes
    ]_vars

\* A participant who has scored was refused an answer to another index.
C12_Witness ==
  \E q \in QuizIds :
    /\ res = Response("submitAnswer", q, 400,
                      "Cannot answer previous or future questions")
    /\ \E u \in Users : isParticipant(q, u) /\ participantOf(q, u).score > 0

\* C13: a submission by an id that is not a participant of the session is
\* rejected ("Not a participant in this quiz"); no participant record is
\* created and nothing else changes.
C13_NonParticipantRejected ==
  [][\A q \in QuizIds, u \in Users, i \in QuestionIndices, a \in Options :
       ( /\ hasSession(q)
         /\ ~isParticipant(q, u)
         /\ submitAnswer(q, u, i, a) )
       => /\ res'.status = 403
          /\ ~isParticipant(q, u)'
          /\ UNCHANGED << quizzes, activeQuizzes, expired, lastEvent, timers, joining >>
    ]_vars

\* A session with one participant has refused another id's submission.
C13_Witness ==
  \E q \in QuizIds :
    /\ res = Response("submitAnswer", q, 403, "Not a participant in this quiz")
    /\ \E u \in Users, v \in Users : isParticipant(q, u) /\ ~isParticipant(q, v)

\* C14: a start by the creator on a session that is already Active fails
\* (AlreadyStarted) and leaves the session's index, participants, scores and
\* answers as they were.
C14_StartOnActiveRejected ==
  [][\A q \in QuizIds, u \in Users :
       ( /\ isActiveSession(q)
         /\ quizzes[q].createdBy = u
         /\ startLiveQuiz(q, u) )
       => /\ res'.status # 200
          /\ activeQuizzes' = activeQuizzes
    ]_vars

\* C15: a start by a caller who is not the quiz's creator fails (403, not
\* authorized); the quiz document and its state stay as they were, no session
\* state is created or changed and nothing is published.
C15_NonCreatorStartRejected ==
  [][\A q \in QuizIds, u \in Users :
       ( /\ quizzes[q].exists
         /\ quizzes[q].createdBy # u
         /\ (startLiveQuiz(q, u) \/ startQuiz(q, u)) )
       => /\ res'.status = 403
          /\ UNCHANGED << quizzes, activeQuizzes, expired, lastEvent, timers, joining >>
    ]_vars

\* A quiz that was never started has refused a start.
C15_Witness ==
  \E q \in QuizIds :
    /\ res = Response("startLiveQuiz", q, 403, "Not authorized to start this quiz")
    /\ quizzes[q].exists /\ ~quizzes[q].isLive /\ ~quizzes[q].startedAt
    /\ ~hasSession(q)


\* C16: no participant is ever added to a session that is Ended; this covers a
\* join that was under way when the session ended.
C16_NoJoinIntoEnded ==
  [][\A q \in QuizIds, u \in Users :
       (isEnded(q) /\ ~isParticipant(q, u)) => ~isParticipant(q, u)'
    ]_vars

\* C17: a participant who joined the quiz before it was started is a
\* participant of the running session once the creator starts it (so that
\* their submissions are not refused as coming from a non-participant).
C17_JoinedBeforeStartCarriedOver ==
  [][\A q \in QuizIds, u \in Users, c \in Users :
       ( /\ ~hasSession(q)
         /\ \E k \in 1..Len(quizzes[q].participants) : quizzes[q].participants[k] = u
         /\ startLiveQuiz(q, c)
         /\ res'.status = 200 )
       => isParticipant(q, u)'
    ]_vars

\* C18: an accepted submission adds exactly the question's configured point
\* value to the score when the selection is the correct answer and nothing
\* otherwise, for every point value, 0 included.
C18_GradeIsConfiguredPoints ==
  [][\A q \in QuizIds, u \in Users, i \in QuestionIndices, a \in Options :
       ( /\ isParticipant(q, u)
         /\ i = currentIndex(q)
         /\ i < numQuestions(q)
         /\ submitAnswer(q, u, i, a) )
       => participantOf(q, u)'.score =
            participantOf(q, u).score
              + (IF a = quizzes[q].questions[i + 1].correctAnswer
                 THEN quizzes[q].questions[i + 1].points ELSE 0)
    ]_vars

\* The number of a participant's recorded answers that are marked correct.
correctAnswers(q, u) ==
  Cardinality({i \in DOMAIN participantOf(q, u).answers :
                 participantOf(q, u).answers[i].isCorrect})

C20_TieBreakByCorrectAnswers ==
  \A q \in QuizIds :
    hasSession(q) =>
      LET lb == calculateLeaderboard(q) IN
        \A k \in 1..Len(lb), l \in 1..Len(lb) :
          (k < l /\ lb[k].score = lb[l].score)
            => correctAnswers(q, lb[k].userId) >= correctAnswers(q, lb[l].userId)

IsPrefix(s, t) == Len(s) <= Len(t) /\ SubSeq(t, 1, Len(s)) = s

\* The user ids of the leaderboard entries of session q that have score sc, in
\* leaderboard order.
rankedWithScore(q, sc) ==
  LET tied == SelectSeq(calculateLeaderboard(q), LAMBDA e : e.score = sc)
  IN [k \in 1..Len(tied) |-> tied[k].userId]

\* The participants of session q that have score sc, in join order.
joinedWithScore(q, sc) ==
  SelectSeq(activeQuizzes[q].participants.order,
            LAMBDA u : activeQuizzes[q].participants.data[u].score = sc)

\* In the leaderboard of session q, entries of equal score are in join order.
tiesInJoinOrder(q) ==
  \A sc \in 0..MaxScore : rankedWithScore(q, sc) = joinedWithScore(q, sc)

C22_GetLeaderboardAvailable ==
  [][\A q \in QuizIds, u \in Users :
       (hasSession(q) /\ getLeaderboard(q, u))
         => /\ res'.status = 200
            /\ UNCHANGED << quizzes, activeQuizzes, expired, lastEvent, timers >>
    ]_vars

\* The quiz of session q with the correct answer of question i replaced by c
\* (the option flags and the explanation follow the correct answer).
withCorrectAnswer(q, i, c) ==
  [quizzes[q] EXCEPT !.questions[i + 1] = Question(c, @.points)]

\* C23: the view of a question that is sent to participants carries the
\* question text and the option texts, and neither the correct answer, nor an
\* option's correctness flag, nor the explanation: questions that differ only
\* in their correct answer have the same view.
C23_QuestionViewHidesAnswer ==
  \A q \in QuizIds : \A i \in QuestionIndices :
    (quizzes[q].exists /\ i < numQuestions(q)) =>
      LET view == getCurrentQuestionForUser(quizzes[q], i) IN
        /\ DOMAIN view \cap {"correctAnswer", "explanation"} = {}
        /\ \A k \in 1..Len(view.options) : DOMAIN view.options[k] = {"text"}
        /\ \A c \in Options :
             getCurrentQuestionForUser(withCorrectAnswer(q, i, c), i) = view

\* A running session on a quiz whose two questions have different correct
\* answers, with a participant to whom the open question is shown.
C23_Witness ==
  \E q \in QuizIds :
    /\ isActiveSession(q)
    /\ numQuestions(q) = 2
    /\ quizzes[q].questions[1].correctAnswer # quizzes[q].questions[2].correctAnswer
    /\ \E u \in Users : isParticipant(q, u)

\* An event whose fields are those of the four published events and whose
\* leaderboard entries carry a user id, a score and a number of answers only.
noSelections(event) ==
  /\ DOMAIN event = DOMAIN NoEvent
  /\ \A k \in 1..Len(event.leaderboard) :
       DOMAIN event.leaderboard[k] = {"userId", "score", "answers"}

\* C24: no published event, and no leaderboard-update computed from a session,
\* carries a participant's selection or the correctness of an answer; a
\* submission publishes nothing, its result goes to the response alone.
C24_EventsCarryNoSelections ==
  [][/\ noSelections(lastEvent)
     /\ \A q \in QuizIds :
          /\ noSelections(leaderboardUpdate(q))
          /\ lastEvent' # lastEvent =>
               \A u \in Users, i \in QuestionIndices, a \in Options :
                 ~submitAnswer(q, u, i, a)
    ]_vars

\* A join was published while another participant's answer is on record, and
\* the leaderboard counts that answer.
C24_Witness ==
  \E q \in QuizIds : \E u \in Users :
    /\ hasAnswered(q, u, 0)
    /\ lastEvent.name = "participant-joined" /\ lastEvent.user # u
    /\ res.op = "joinLiveQuiz"
    /\ \E k \in 1..Len(calculateLeaderboard(q)) : calculateLeaderboard(q)[k].answers = 1

\* C25: a failure to publish the participant-joined event does not surface as
\* an error of the join: a join that passes its checks answers 200 although
\* the publish fails.
C25_PublishFailureNotAnError ==
  [][\A q \in QuizIds, u \in Users :
       (joinable(q) /\ joinLiveQuiz(q, u, FALSE)) => res'.status = 200
    ]_vars

\* C26: an operation addressed to a quiz id that has no session in
\* activeQuizzes fails with an error response and changes no state.
C26_UnknownSessionFails ==
  [][\A q \in QuizIds :
       ( /\ ~hasSession(q)
         /\ \/ \E u \in Users, i \in QuestionIndices, a \in Options :
                 submitAnswer(q, u, i, a)
            \/ \E u \in Users : getLeaderboard(q, u)
            \/ \E u \in Users, ok \in BOOLEAN : joinLiveQuiz(q, u, ok)
            \/ nextQuestion(q)
            \/ endQuiz(q) )
       => /\ res'.status >= 400
          /\ UNCHANGED << quizzes, activeQuizzes, lastEvent, timers >>
    ]_vars

\* C27: no quiz with an empty question list is ever stored, so no session on
\* such a quiz exists.
C27_NoEmptyQuizStored ==
  \A q \in QuizIds : quizzes[q].exists => numQuestions(q) > 0

\* Scenario A: the quiz of two questions worth 1 and 2 points, P1 = u1 joined
\* before P2 = u2, the session running.
scenarioA(q) ==
  /\ quizzes[q].exists
  /\ quizzes[q].questions = << Question("B", 1), Question("A", 2) >>
  /\ isActiveSession(q)
  /\ activeQuizzes[q].participants.order = << "u1", "u2" >>

\* The user ids and scores of a leaderboard, in its order.
scoresOf(leaderboard) ==
  [k \in 1..Len(leaderboard) |-> << leaderboard[k].userId, leaderboard[k].score >>]

\* C28: in Scenario A, when the timer of question 1 fires after P1 answered it
\* correctly and P2 wrongly, the leaderboard [P1:1, P2:0] is broadcast and
\* question 2 opens; when the timer of question 2 fires after P2 alone
\* answered it correctly, the leaderboard [P2:2, P1:1] is broadcast and the
\* session is Ended.
C28_ScenarioA ==
  [][\A q \in QuizIds :
       /\ ( /\ scenarioA(q)
            /\ currentIndex(q) = 0
            /\ participantOf(q, "u1").score = 1 /\ hasAnswered(q, "u1", 0)
            /\ participantOf(q, "u2").score = 0 /\ hasAnswered(q, "u2", 0)
            /\ nextQuestion(q) )
          => /\ scoresOf(lastEvent'.leaderboard) = << << "u1", 1 >>, << "u2", 0 >> >>
             /\ currentIndex(q)' = 1
       /\ ( /\ scenarioA(q)
            /\ currentIndex(q) = 1
            /\ participantOf(q, "u1").score = 1 /\ ~hasAnswered(q, "u1", 1)
            /\ participantOf(q, "u2").score = 2 /\ hasAnswered(q, "u2", 1)
            /\ nextQuestion(q) )
          => /\ scoresOf(lastEvent'.leaderboard) = << << "u2", 2 >>, << "u1", 1 >> >>
             /\ isEnded(q)'
    ]_vars

\* C30: there is no overall session timeout: however much time has passed
\* since the start, a join into a session that is Active, has its question
\* open and whose quiz nobody has ended is accepted, and so is a participant's
\* submission for the open question.
C30_NoSessionTimeout ==
  [][\A q \in QuizIds, u \in Users :
       ( /\ isActiveSession(q)
         /\ currentIndex(q) < numQuestions(q)
         /\ findLiveByCode(q) /\ ~quizzes[q].endedAt )
       => /\ \A ok \in BOOLEAN : joinLiveQuiz(q, u, ok) => isParticipant(q, u)'
          /\ \A a \in Options :
               (isParticipant(q, u) /\ submitAnswer(q, u, currentIndex(q), a))
                 => res'.status = 200
    ]_vars

\* Whether quiz q has a session, and the session if it has one.
sessionOf(q) ==
  << hasSession(q), IF hasSession(q) THEN activeQuizzes[q] ELSE NewSession >>

\* A step of one of the engine's operations on quiz q.
operationOn(q) ==
  \/ \E u \in Users : startLiveQuiz(q, u)
  \/ \E u \in Users, ok \in BOOLEAN : joinLiveQuiz(q, u, ok)
  \/ \E u \in Users, i \in QuestionIndices, a \in Options : submitAnswer(q, u, i, a)
  \/ nextQuestion(q)
  \/ endQuiz(q)

\* C29: sessions are isolated: a step that changes the session of one quiz
\* (its existence, index, state, participants, scores or recorded answers) is
\* never an operation on another quiz.
C29_SessionsIsolated ==
  [][\A a \in TwoQuizIds, b \in TwoQuizIds :
       (a # b /\ sessionOf(b)' # sessionOf(b)) => ~operationOn(a)
    ]_vars

\* Two sessions side by side in different states: the same user has scored in
\* the first, which is Active, and has joined the second, which is Ended.
C29_Witness ==
  /\ isActiveSession("q1") /\ isEnded("q2")
  /\ isParticipant("q1", "u1") /\ participantOf("q1", "u1").score = 1
  /\ isParticipant("q2", "u1") /\ participantOf("q2", "u1").score = 0
  /\ isParticipant("q2", "u2")

\* C31: an advance trigger is guarded: no step raises a session's index by
\* more than one, a nextQuestion call that finds the session Ended (every
\* question of it closed) returns without an error and changes nothing, and
\* a session whose index is past len(questions) - 1 is Ended.
C31_AdvanceGuarded ==
  [][\A q \in QuizIds :
       /\ currentIndex(q)' - currentIndex(q) <= 1
       /\ (isEnded(q) /\ nextQuestion(q))
            => /\ res'.body = "returned"
               /\ UNCHANGED << quizzes, activeQuizzes, lastEvent, timers >>
       /\ (hasSession(q)' /\ currentIndex(q)' > numQuestions(q)' - 1)
            => isEnded(q)']_vars

closesQuestion(q, i) ==
  /\ isActiveSession(q) /\ currentIndex(q) = i
  /\ hasSession(q)'
  /\ (isEnded(q)' \/ currentIndex(q)' > i)

\* C33: the leaderboard broadcast for the close of question i is computed
\* after the question stopped accepting answers: the step that closes the
\* question publishes a leaderboard holding every participant's score, and no
\* submitAnswer for a closed question is accepted afterwards.
C33_SnapshotAfterClose ==
  [][\A q \in QuizIds, i \in QuestionIndices :
       /\ closesQuestion(q, i)
            => /\ lastEvent'.quiz = q
               /\ lastEvent'.name \in
                    {"leaderboard-update", "next-question", "quiz-ended"}
               /\ scoresOf(lastEvent'.leaderboard)
                    = scoresOf(calculateLeaderboard(q))'
       /\ \A u \in Users, a \in Options :
            (hasSession(q) /\ (isEnded(q) \/ currentIndex(q) > i)
               /\ submitAnswer(q, u, i, a))
              => res'.status # 200]_vars

\* A joinLiveQuiz call on quiz q is between its first read (the document with
\* endedAt, part_005:121-130) and its last write (participants.set, 150).
joinInProgress(q) == \E call \in joining : call.quiz = q

\* The step is a whole submitAnswer, nextQuestion, joinLiveQuiz or endQuiz
\* on quiz q.
mutatingOperation(q) ==
  \/ \E u \in Users, i \in QuestionIndices, a \in Options : submitAnswer(q, u, i, a)
  \/ nextQuestion(q)
  \/ \E u \in Users, ok \in BOOLEAN : joinLiveQuiz(q, u, ok)
  \/ endQuiz(q)

\* C34: the mutating operations on one session exclude each other: while a
\* joinLiveQuiz call on a quiz is in progress, no submitAnswer, nextQuestion,
\* other joinLiveQuiz or endQuiz changes that quiz's session or document.
C34_MutuallyExclusive ==
  [][\A q \in QuizIds :
       (joinInProgress(q)
          /\ (activeQuizzes' # activeQuizzes \/ quizzes'[q] # quizzes[q]))
         => ~mutatingOperation(q)]_vars

\* C35: a broadcast outage does not block progression: a nextQuestion on an
\* Active session of a quiz with questions, run while channel.publish fails,
\* still opens the next question with a round timer pending or finalizes the
\* session with its cleanup scheduled; so does an endQuiz run in the outage.
C35_OutageDoesNotBlock ==
  [][\A q \in QuizIds :
       /\ (isActiveSession(q) /\ numQuestions(q) > 0 /\ nextQuestionBody(q, FALSE))
            => \/ /\ currentIndex(q)' = currentIndex(q) + 1
                  /\ isActiveSession(q)'
                  /\ [kind |-> "nextQuestion", quiz |-> q] \in timers'
               \/ /\ isEnded(q)'
                  /\ [kind |-> "cleanup", quiz |-> q] \in timers'
       /\ (isActiveSession(q) /\ endQuizBody(q, "endQuiz", FALSE))
            => /\ isEnded(q)'
               /\ [kind |-> "cleanup", quiz |-> q] \in timers']_vars

\* C36: the store gives up a session only after the session is Ended: no step
\* removes an Active session from activeQuizzes or puts another session
\* object in its place (every joined participant is still in the session
\* after the step).
C36_DestroyedOnlyAfterEnded ==
  [][\A q \in QuizIds :
       isActiveSession(q)
         => /\ hasSession(q)'
            /\ IsPrefix(activeQuizzes[q].participants.order,
                        activeQuizzes'[q].participants.order)]_vars

\* The sum of the point values (question.points || 1) of the first n
\* questions of quiz q for which participant u has a recorded answer marked
\* correct.
RECURSIVE pointsUpTo(_, _, _)
pointsUpTo(q, u, n) ==
  IF n = 0
  THEN 0
  ELSE pointsUpTo(q, u, n - 1)
         + (IF hasAnswered(q, u, n - 1) /\ participantOf(q, u).answers[n - 1].isCorrect
            THEN pointsOf(quizzes[q].questions[n])
            ELSE 0)

earnedPoints(q, u) == pointsUpTo(q, u, numQuestions(q))

\* C37: in every reachable state, every participant's score is the sum of the
\* point values of the questions for which the participant has a recorded
\* answer marked correct, a question whose value reads as none counting 1.
C37_ScoreAccounting ==
  \A q \in QuizIds, u \in Users :
    isParticipant(q, u) => participantOf(q, u).score = earnedPoints(q, u)

\* C38: the step that finalizes a session publishes the quiz-ended event, and
\* the final leaderboard it carries is the leaderboard of the
\* leaderboard-update published with it, computed from the session as the
\* step leaves it.
C38_FinalLeaderboardsEqual ==
  [][\A q \in QuizIds :
       (isActiveSession(q) /\ hasSession(q)' /\ isEnded(q)')
         => lastEvent' = [leaderboardUpdate(q)' EXCEPT !.name = "quiz-ended"]]_vars

====
